---- MODULE Spec2Model ----
(***************************************************************************)
(* Model of the lawyeredAI repository: the CourtListener MCP tool server   *)
(* (src/mcp/courtlistener-mcp/server.py) and the FastAPI backend           *)
(* (src/backend).                                                          *)
(*                                                                         *)
(* Python strings are sequences of one-character strings, so that strip(), *)
(* lower(), slicing and the substring test `in` are computed as Python     *)
(* computes them.  A Python value whose type matters is a record with a    *)
(* type tag t.                                                             *)
(***************************************************************************)
EXTENDS Integers, Sequences, FiniteSets, TLC

VARIABLES
    \* validate_search_keywords applied to one input
    vk_in, vk_out,
    \* truncate_text applied to one input
    tt_text, tt_max, tt_out,
    \* one call of the tool search_cases_by_problem
    pc,               \* "idle", "awaiting" (the request is with the API), "responded", "done"
    args,             \* the arguments of the call
    locals,           \* valid_keywords, limit and params once the request is built
    http_requests,    \* the params of the requests sent to the case-law API
    response,         \* the API's answer
    scored_results,   \* the candidates with their relevance_score
    tool_result,      \* what the call handed back
    first_run,        \* the arguments, the API's answer and the result of an earlier call
    \* the backend
    now,              \* the clock, in seconds
    honcho_remote,    \* the memory provider's store: sessions, and messages by session
    payment_log,      \* the rows of the payments table
    n_requests,       \* the requests handled so far
    max_requests,     \* the requests the behaviour handles at most
    last_request      \* the last request handled: its route, the response, the calls made

vkvars == <<vk_in, vk_out>>
ttvars == <<tt_text, tt_max, tt_out>>
svars  == <<pc, args, locals, http_requests, response, scored_results, tool_result,
            first_run>>
bvars  == <<now, honcho_remote, payment_log, n_requests, max_requests, last_request>>

-----------------------------------------------------------------------------
(* Python strings *)

Min(a, b) == IF a <= b THEN a ELSE b
Max(a, b) == IF a >= b THEN a ELSE b

\* n copies of the character c
Rep(c, n) == [i \in 1..n |-> c]

\* str.isspace() for one character
IsSpace(c) == c \in {" ", "\t", "\n"}

\* the upper-case letters of the model's alphabet and their lower-case forms
UpperToLower ==
    "A" :> "a" @@ "B" :> "b" @@ "C" :> "c" @@ "D" :> "d" @@ "E" :> "e" @@
    "N" :> "n" @@ "R" :> "r" @@ "T" :> "t" @@ "U" :> "u" @@
    "M" :> "m" @@ "O" :> "o" @@ "S" :> "s"

\* str.lower()
Lower(s) ==
    [i \in 1..Len(s) |-> IF s[i] \in DOMAIN UpperToLower THEN UpperToLower[s[i]] ELSE s[i]]

\* str.strip(): drop leading and trailing whitespace
Strip(s) ==
    LET keep == {i \in 1..Len(s) : ~IsSpace(s[i])}
    IN  IF keep = {} THEN <<>>
        ELSE LET first == CHOOSE i \in keep : \A j \in keep : i <= j
                 last  == CHOOSE i \in keep : \A j \in keep : i >= j
             IN  SubSeq(s, first, last)

\* k in t, for strings
IsSubstring(k, t) ==
    \E i \in 0..(Len(t) - Len(k)) : SubSeq(t, i + 1, i + Len(k)) = k

\* s[:n] for a sequence s and an integer n (a negative n counts from the end)
SliceTo(s, n) ==
    IF n >= 0 THEN SubSeq(s, 1, Min(n, Len(s)))
    ELSE SubSeq(s, 1, Max(Len(s) + n, 0))

\* s[-n:] for a sequence s and n > 0
SliceLast(s, n) == SubSeq(s, Max(Len(s) - n, 0) + 1, Len(s))

-----------------------------------------------------------------------------
(* Python values *)

PyStr(s) == [t |-> "str", s |-> s]
PyInt    == [t |-> "int", s |-> <<>>]         \* a number where a string is expected
PyNone   == [t |-> "none", s |-> <<>>]

\* the search_keywords argument: a list of entries, or a value that is no list
PyList(v)   == [t |-> "list", v |-> v]
PyNotList   == [t |-> "none", v |-> <<>>]     \* None
PyStrArg(s) == [t |-> "str", v |-> [i \in 1..Len(s) |-> PyStr(<<s[i]>>)]]

\* the outcome of a call: a returned value or a raised exception
Return(v)       == [ok |-> TRUE, val |-> v, exc |-> "", msg |-> ""]
Raise(exc, msg) == [ok |-> FALSE, val |-> <<>>, exc |-> exc, msg |-> msg]
NotCalled       == [ok |-> FALSE, val |-> <<>>, exc |-> "", msg |-> "not called"]

-----------------------------------------------------------------------------
(* CourtListenerMCPServer.validate_search_keywords *)

MaxKeywords == 10
MaxKeywordLen == 100

\* faulty variant, for comparison: the length limit applied to the stripped keyword
KeywordIsValidStrippedLen(keyword) ==
    /\ keyword.t = "str"
    /\ Len(Strip(keyword.s)) > 0
    /\ Len(Strip(keyword.s)) <= MaxKeywordLen

\* isinstance(keyword, str) and keyword.strip() and len(keyword) <= 100
KeywordIsValid(keyword) ==
    /\ keyword.t = "str"
    /\ Len(Strip(keyword.s)) > 0
    /\ Len(keyword.s) <= MaxKeywordLen

\* [keyword.strip() for keyword in keywords if ...]
RECURSIVE CleanKeywords(_)
CleanKeywords(entries) ==
    IF Len(entries) = 0 THEN <<>>
    ELSE (IF KeywordIsValid(Head(entries)) THEN <<Strip(Head(entries).s)>> ELSE <<>>)
         \o CleanKeywords(Tail(entries))

\* faulty variant, for comparison: the isinstance test left out
NotNonEmptyListNoTypeCheck(keywords) == Len(keywords.v) = 0

\* if not isinstance(keywords, list) or len(keywords) == 0
NotNonEmptyList(keywords) == keywords.t # "list" \/ Len(keywords.v) = 0

\* faulty variant, for comparison: the entries counted after filtering
TooManyKeywordsAfterFilter(keywords) == Len(CleanKeywords(keywords.v)) > MaxKeywords

\* if len(keywords) > 10
TooManyKeywords(keywords) == Len(keywords.v) > MaxKeywords

validate_search_keywords(keywords) ==
    IF NotNonEmptyList(keywords)
    THEN Raise("ValueError", "search_keywords must be a non-empty array of legal terms")
    ELSE IF TooManyKeywords(keywords)
    THEN Raise("ValueError", "Maximum 10 search keywords allowed for optimal performance")
    ELSE LET valid_keywords == CleanKeywords(keywords.v)
         IN  IF Len(valid_keywords) = 0
             THEN Raise("ValueError",
                        "No valid search keywords provided. Keywords must be non-empty strings.")
             ELSE Return(valid_keywords)

-----------------------------------------------------------------------------
(* CourtListenerMCPServer.truncate_text *)

TruncationMarker ==
    << ".", ".", ".", " ", "[", "T", "R", "U", "N", "C", "A", "T", "E", "D", " ", "-",
       " ", "u", "s", "e", " ", "g", "e", "t", "_", "c", "a", "s", "e", "_", "d", "e",
       "t", "a", "i", "l", "s", " ", "w", "i", "t", "h", " ", "i", "n", "c", "l", "u",
       "d", "e", "_", "f", "u", "l", "l", "_", "t", "e", "x", "t", " ", "f", "o", "r",
       " ", "c", "o", "m", "p", "l", "e", "t", "e", " ", "t", "e", "x", "t", "]" >>

\* faulty variant, for comparison: the slice one character short
TruncatedFormShort(s, max_length) == SliceTo(s, max_length - 1) \o TruncationMarker

\* text[:max_length] + "... [TRUNCATED ...]"
TruncatedForm(s, max_length) == SliceTo(s, max_length) \o TruncationMarker

\* text is None, a string or (for a missing key read with .get) None
truncate_text(text, max_length) ==
    IF text.t # "str" \/ Len(text.s) = 0 \/ Len(text.s) <= max_length
    THEN (IF text.t = "str" THEN text.s ELSE <<>>)
    ELSE TruncatedForm(text.s, max_length)

-----------------------------------------------------------------------------
(* CourtListenerMCPServer.search_cases_by_problem *)

LimitDefault == 10
LimitCap == 20
PageSizeCap == 40
SummaryMax == 200

\* a dict entry read with .get(): a value, or no such key
Absent == [t |-> "absent", s |-> <<>>]
PyNum(t, n) == [t |-> t, n |-> n]
NoLimit == PyNum("absent", 0)

\* args.get("search_keywords", [])
KeywordsArg(a) ==
    IF a.search_keywords.t = "absent" THEN PyList(<<>>) ELSE a.search_keywords

\* limit = min(args.get("limit", 10), 20); None is not ordered against a number
LimitOf(a) ==
    LET given == IF a.limit.t = "absent" THEN PyNum("int", LimitDefault) ELSE a.limit
    IN  IF given.t = "none"
        THEN Raise("TypeError", "'<' not supported between instances of 'int' and 'NoneType'")
        ELSE Return(IF given.n <= LimitCap THEN given ELSE PyNum("int", LimitCap))

\* faulty variant, for comparison: the page size taken from the raw argument, without the caps
PageSizeUncapped(a, limit) == PyNum(limit.t, a.limit.n * 2)

\* "page_size": min(limit * 2, 40)
PageSize(a, limit) ==
    IF limit.n * 2 <= PageSizeCap THEN PyNum(limit.t, limit.n * 2)
    ELSE PyNum("int", PageSizeCap)

\* f"{value}" for a string or None
PyFormat(x) == IF x.t = "str" THEN x.s ELSE <<"N", "o", "n", "e">>

\* item.get(key, '')
GetOrEmpty(field) == IF field.t = "absent" THEN PyStr(<<>>) ELSE field
\* item.get(key)
GetOrNone(field) == IF field.t = "absent" THEN PyNone ELSE field
\* x.get("citation_count", 0)
CitationCount(item) == IF item.citation_count.t = "absent" THEN 0 ELSE item.citation_count.n

\* faulty variant, for comparison: the text not lower-cased
ScoredTextCaseSensitive(item) ==
    PyFormat(GetOrEmpty(item.case_name)) \o <<" ">> \o PyFormat(GetOrEmpty(item.snippet))

\* text = f"{item.get('case_name', '')} {item.get('snippet', '')}".lower()
ScoredText(item) ==
    Lower(PyFormat(GetOrEmpty(item.case_name)) \o <<" ">>
          \o PyFormat(GetOrEmpty(item.snippet)))

\* keyword_score = sum(1 for keyword in valid_keywords if keyword.lower() in text)
KeywordScore(item, valid_keywords) ==
    LET text == ScoredText(item)
    IN  Cardinality({k \in 1..Len(valid_keywords) :
                        IsSubstring(Lower(valid_keywords[k]), text)})

\* scored_results.append({**item, "relevance_score": keyword_score})
ScoreResults(results, valid_keywords) ==
    [i \in 1..Len(results) |->
        [item |-> results[i], relevance_score |-> KeywordScore(results[i], valid_keywords)]]

\* faulty variant, for comparison: the sort key without the citation count
KeyLessScoreOnly(a, b) == a.relevance_score < b.relevance_score

\* key=lambda x: (x.get("relevance_score", 0), x.get("citation_count", 0)), compared as tuples
KeyLess(a, b) ==
    \/ a.relevance_score < b.relevance_score
    \/ /\ a.relevance_score = b.relevance_score
       /\ CitationCount(a.item) < CitationCount(b.item)

\* faulty variant, for comparison: x goes in front of the elements it ties with
RECURSIVE InsertDescBeforeTies(_, _)
InsertDescBeforeTies(sorted, x) ==
    IF Len(sorted) = 0 THEN <<x>>
    ELSE IF ~KeyLess(x, Head(sorted)) THEN <<x>> \o sorted
    ELSE <<Head(sorted)>> \o InsertDescBeforeTies(Tail(sorted), x)

\* sorted(..., reverse=True) is stable: x goes behind every element that is not below it
RECURSIVE InsertDesc(_, _)
InsertDesc(sorted, x) ==
    IF Len(sorted) = 0 THEN <<x>>
    ELSE IF KeyLess(Head(sorted), x) THEN <<x>> \o sorted
    ELSE <<Head(sorted)>> \o InsertDesc(Tail(sorted), x)

RECURSIVE SortedDesc(_)
SortedDesc(scored) ==
    IF Len(scored) = 0 THEN <<>>
    ELSE InsertDesc(SortedDesc(SubSeq(scored, 1, Len(scored) - 1)), scored[Len(scored)])

\* sorted(...)[:limit]: a slice index must be an integer
TopResults(scored, limit) ==
    IF limit.t # "int"
    THEN Raise("TypeError", "slice indices must be integers or None or have an __index__ method")
    ELSE Return(SliceTo(SortedDesc(scored), limit.n))

PrecedentialValue(citation_count) ==
    IF citation_count > 10 THEN "Strong"
    ELSE IF citation_count > 2 THEN "Moderate"
    ELSE "Limited"

\* one entry of results, lines 162-179 (court and date_filed are copied through and left out)
FormatCase(x) ==
    [ case_id            |-> x.item.id,
      case_name          |-> GetOrNone(x.item.case_name),
      citation_count     |-> CitationCount(x.item),
      relevance_summary  |-> truncate_text(GetOrNone(x.item.snippet), SummaryMax),
      keyword_matches    |-> x.relevance_score,
      precedential_value |-> PrecedentialValue(CitationCount(x.item)) ]

NoData ==
    [ keywords_used |-> <<>>, total_found |-> 0, returned_count |-> 0,
      cases |-> <<>>, usage_note |-> "" ]

\* result_data, lines 181-199
ResultData(valid_keywords, data, sorted_results, limit) ==
    LET results == [i \in 1..Len(sorted_results) |-> FormatCase(sorted_results[i])]
    IN  [ keywords_used  |-> valid_keywords,
          total_found    |-> data.count,
          returned_count |-> Len(results),
          cases          |-> results,
          usage_note     |-> IF Len(results) = limit.n THEN "limited" ELSE "all" ]

\* what the tool call hands back: a result with data, a result with an "error" field,
\* or an exception that left the method
ToolResult(data)  == [status |-> "returned", error |-> "", data |-> data]
ToolError(msg)    == [status |-> "returned", error |-> msg, data |-> NoData]
ToolRaised(exc)   == [status |-> "raised", error |-> exc, data |-> NoData]
NoToolResult      == [status |-> "none", error |-> "", data |-> NoData]

\* faulty variant, for comparison: except httpx.HTTPError, which lets the other exceptions through
SearchCatchesHttpOnly(exc) == exc \in {"ConnectError", "HTTPStatusError"}

\* except Exception as error: every exception of the body is caught
SearchCatches(exc) == TRUE

\* try: ... except Exception as error: return CallToolResult(error_data)
SearchOutcome(body) ==
    IF body.ok THEN ToolResult(body.val)
    ELSE IF SearchCatches(body.exc) THEN ToolError(body.msg)
    ELSE ToolRaised(body.exc)

\* sep.join(strings)
RECURSIVE Join(_, _)
Join(sep, strings) ==
    IF strings = <<>> THEN <<>>
    ELSE IF Len(strings) = 1 THEN strings[1]
    ELSE strings[1] \o sep \o Join(sep, Tail(strings))

PrimaryTermCount == 5
OrSeparator == <<" ", "O", "R", " ">>
ConsumerWord ==
    << "c", "o", "n", "s", "u", "m", "e", "r" >>
\* the text that follows the parenthesised query
ConsumerClause ==
    << " ", "A", "N", "D", " ", "(", "c", "o", "n", "s", "u", "m", "e", "r", " ", "O",
       "R", " ", "\"", "c", "o", "n", "s", "u", "m", "e", "r", " ", "p", "r", "o", "t",
       "e", "c", "t", "i", "o", "n", "\"", ")" >>

\* f'"{term}"'
Quoted(term) == <<"\"">> \o term \o <<"\"">>

\* faulty variant, for comparison: every validated keyword put in the query
SearchQueryAllKeywords(valid_keywords) ==
    Join(OrSeparator, [i \in 1..Len(valid_keywords) |-> Quoted(valid_keywords[i])])

\* search_query: the first five keywords, quoted, joined with " OR "
SearchQuery(valid_keywords) ==
    LET primary_terms == SliceTo(valid_keywords, PrimaryTermCount)
    IN  Join(OrSeparator, [i \in 1..Len(primary_terms) |-> Quoted(primary_terms[i])])

\* any("consumer" in k.lower() for k in valid_keywords)
HasConsumer(valid_keywords) ==
    \E i \in 1..Len(valid_keywords) : IsSubstring(ConsumerWord, Lower(valid_keywords[i]))

\* enhanced_query
EnhancedQuery(valid_keywords) ==
    IF ~HasConsumer(valid_keywords)
    THEN <<"(">> \o SearchQuery(valid_keywords) \o <<")">> \o ConsumerClause
    ELSE SearchQuery(valid_keywords)

\* datetime and timedelta: a date is a year, a month and a day of the proleptic
\* Gregorian calendar, and day 1 is 0001-01-01
IsLeap(year) == year % 4 = 0 /\ (year % 100 # 0 \/ year % 400 = 0)

\* the days of the year before the first of the month
DaysBeforeMonth(year, month) ==
    <<0, 31, 59, 90, 120, 151, 181, 212, 243, 273, 304, 334>>[month]
        + (IF month > 2 /\ IsLeap(year) THEN 1 ELSE 0)

\* date.toordinal()
ToOrdinal(date) ==
    LET y == date.year - 1
    IN  y * 365 + (y \div 4) - (y \div 100) + (y \div 400)
            + DaysBeforeMonth(date.year, date.month) + date.day

\* date.fromordinal(n): 400 years are 146097 days, 100 years 36524, 4 years 1461
FromOrdinal(n) ==
    LET n400 == (n - 1) \div 146097
        r400 == (n - 1) % 146097
        n100 == r400 \div 36524
        r100 == r400 % 36524
        n4   == r100 \div 1461
        r4   == r100 % 1461
        n1   == r4 \div 365
        r1   == r4 % 365
        year == n400 * 400 + n100 * 100 + n4 * 4 + n1 + 1
    IN  IF n1 = 4 \/ n100 = 4
        THEN [year |-> year - 1, month |-> 12, day |-> 31]
        ELSE LET month == CHOOSE m \in 1..12 :
                              /\ DaysBeforeMonth(year, m) <= r1
                              /\ m < 12 => DaysBeforeMonth(year, m + 1) > r1
             IN  [year |-> year, month |-> month, day |-> r1 - DaysBeforeMonth(year, month) + 1]

\* the decimal digits of n, zero-padded to the width
RECURSIVE Digits(_, _)
Digits(n, width) ==
    IF width = 0 THEN <<>>
    ELSE Digits(n \div 10, width - 1)
             \o << <<"0", "1", "2", "3", "4", "5", "6", "7", "8", "9">>[(n % 10) + 1] >>

\* strftime("%Y-%m-%d")
Strftime(date) ==
    Digits(date.year, 4) \o <<"-">> \o Digits(date.month, 2) \o <<"-">> \o Digits(date.day, 2)

TwoYears == 730
TenYears == 3650
FiveYears == 1825

\* faulty variant, for comparison: the older bound of the precedents five years back as well
DateFiltersSameBound(date_range, current_date) ==
    IF date_range = PyStr(<<"r", "e", "c", "e", "n", "t", "-", "2", "y", "e", "a", "r", "s">>)
    THEN [ filed_after  |-> PyStr(Strftime(FromOrdinal(ToOrdinal(current_date) - TwoYears))),
           filed_before |-> Absent ]
    ELSE IF date_range = PyStr(<<"e", "s", "t", "a", "b", "l", "i", "s", "h", "e", "d", "-",
                                 "p", "r", "e", "c", "e", "d", "e", "n", "t">>)
    THEN [ filed_after  |-> PyStr(Strftime(FromOrdinal(ToOrdinal(current_date) - FiveYears))),
           filed_before |-> PyStr(Strftime(FromOrdinal(ToOrdinal(current_date) - FiveYears))) ]
    ELSE [ filed_after |-> Absent, filed_before |-> Absent ]

\* lines 130-139: the date filters put in params; current_date - timedelta(days=...)
\* is the date that many days earlier
DateFilters(date_range, current_date) ==
    IF date_range = PyStr(<<"r", "e", "c", "e", "n", "t", "-", "2", "y", "e", "a", "r", "s">>)
    THEN [ filed_after  |-> PyStr(Strftime(FromOrdinal(ToOrdinal(current_date) - TwoYears))),
           filed_before |-> Absent ]
    ELSE IF date_range = PyStr(<<"e", "s", "t", "a", "b", "l", "i", "s", "h", "e", "d", "-",
                                 "p", "r", "e", "c", "e", "d", "e", "n", "t">>)
    THEN [ filed_after  |-> PyStr(Strftime(FromOrdinal(ToOrdinal(current_date) - TenYears))),
           filed_before |-> PyStr(Strftime(FromOrdinal(ToOrdinal(current_date) - FiveYears))) ]
    ELSE [ filed_after |-> Absent, filed_before |-> Absent ]

\* lines 100-139: the part of the body before the request is sent, current_date being
\* what datetime.now() answers.  args.get("date_range", "recent-2years").
\* Returns the locals the rest of the body uses, or the exception raised.
SearchPrepare(a, current_date) ==
    LET lim == LimitOf(a)
        date_range ==
            IF a.date_range.t = "absent"
            THEN PyStr(<<"r", "e", "c", "e", "n", "t", "-", "2", "y", "e", "a", "r", "s">>)
            ELSE a.date_range
    IN  IF ~lim.ok THEN lim
        ELSE LET vk == validate_search_keywords(KeywordsArg(a))
             IN  IF ~vk.ok THEN vk
                 ELSE LET filters == DateFilters(date_range, current_date)
                      IN  Return([ valid_keywords |-> vk.val,
                                   limit          |-> lim.val,
                                   date_range     |-> date_range,
                                   current_date   |-> current_date,
                                   params         |-> [ q |-> EnhancedQuery(vk.val),
                                                         page_size |-> PageSize(a, lim.val),
                                                         filed_after |-> filters.filed_after,
                                                         filed_before |-> filters.filed_before ] ])

\* data.get("results", [])
ResultsOf(data) == IF data.has_results THEN data.results ELSE <<>>

\* lines 142-199: the part of the body after the response has arrived

SearchProcess(loc, resp) ==
    IF resp.kind = "transport_error"
    THEN Raise("ConnectError", "All connection attempts failed")
    ELSE IF resp.kind = "status_error"
    THEN Raise("HTTPStatusError", "Server error '500 Internal Server Error'")
    ELSE IF resp.kind = "not_json"
    THEN Raise("JSONDecodeError", "Expecting value: line 1 column 1 (char 0)")
    ELSE IF resp.kind = "not_object"
    THEN Raise("AttributeError", "'list' object has no attribute 'get'")
    ELSE LET scored == ScoreResults(ResultsOf(resp.data), loc.valid_keywords)
             top    == TopResults(scored, loc.limit)
         IN  IF ~top.ok THEN top
             ELSE Return(ResultData(loc.valid_keywords, resp.data, top.val, loc.limit))

-----------------------------------------------------------------------------
(* Backend services: src/backend/services *)

\* An external HTTP call ends "ok", with an httpx.HTTPError ("http_error": a transport
\* failure, or an error status turned into an exception by raise_for_status), or with
\* an exception that is no httpx.HTTPError ("other_error": a body that is not JSON or
\* lacks the expected fields).

\* LegalCase(id=str(result.get("id", "")), case_name=result.get("caseName", ""), ...)
LegalCase(result) == [id |-> [str |-> result.id], case_name |-> result.caseName]

\* faulty variant, for comparison: the except httpx.HTTPError clause left out, so the error leaves the service
search_cases_uncaught(api, limit) ==
    IF api.outcome # "ok"
    THEN Raise("HTTPError", "CourtListener request failed")
    ELSE LET firsts == SliceTo(api.results, limit)
         IN  Return([i \in 1..Len(firsts) |-> LegalCase(firsts[i])])

\* CourtListenerService.search_cases
search_cases(api, limit) ==
    IF api.outcome = "http_error" THEN Return(<<>>)
    ELSE IF api.outcome = "other_error"
    THEN Raise("JSONDecodeError", "Expecting value: line 1 column 1 (char 0)")
    ELSE LET firsts == SliceTo(api.results, limit)
         IN  Return([i \in 1..Len(firsts) |-> LegalCase(firsts[i])])

HistoryWindow == 5

\* faulty variant, for comparison: the whole history put in the list
AiMessagesWholeHistory(user_message, chat_history) ==
    <<[role |-> "system", content |-> "system prompt"]>>
        \o chat_history
        \o <<[role |-> "user", content |-> user_message]>>

\* the messages list of AIService.generate_response: the system prompt, the last five
\* messages of the history, the user's message
AiMessages(user_message, chat_history) ==
    <<[role |-> "system", content |-> "system prompt"]>>
        \o SliceLast(chat_history, HistoryWindow)
        \o <<[role |-> "user", content |-> user_message]>>

\* any(keyword in ai_response.lower() for keyword in demand_notice_keywords)
MentionsDemandNotice(ai_response) == ai_response = "reply: send a demand letter"

Apology == "I apologize, but I'm experiencing technical difficulties. Please try again later."

\* faulty variant, for comparison: every failure answered with the apology
generate_response_never_raises(user_message, chat_history, relevant_cases, ai) ==
    IF ai.outcome # "ok"
    THEN Return([response |-> Apology, can_generate_demand_notice |-> FALSE])
    ELSE Return([response |-> ai.content,
                 can_generate_demand_notice |-> MentionsDemandNotice(ai.content)])

\* AIService.generate_response
generate_response(user_message, chat_history, relevant_cases, ai) ==
    IF ai.outcome = "http_error"
    THEN Return([response |-> Apology, can_generate_demand_notice |-> FALSE])
    ELSE IF ai.outcome = "other_error"
    THEN Raise("KeyError", "'choices'")
    ELSE Return([response |-> ai.content,
                 can_generate_demand_notice |-> MentionsDemandNotice(ai.content)])

\* session ids: f"session_{user_id}_{int(datetime.now().timestamp())}"
SessionId(user_id, t) == [user |-> user_id, ts |-> t]
NoSession == [user |-> "", ts |-> -1]

\* HonchoService.__init__: the client, if there is one, and the empty fallback stores.
\* remote is the memory provider's own store, which outlives the service object.
NewHonchoService(client, remote, sessions) ==
    [ client            |-> client,
      remote            |-> remote,
      fallback_sessions |-> {},
      fallback_messages |-> [sid \in sessions |-> <<>>] ]

\* HonchoService.create_session; fails: the provider call raises
create_session(hs, user_id, t, fails) ==
    LET session_id == SessionId(user_id, t)
    IN  IF hs.client /\ ~fails
        THEN [ hs |-> [hs EXCEPT !.remote.sessions = @ \cup {session_id}],
               session_id |-> session_id ]
        ELSE [ hs |-> [hs EXCEPT !.fallback_sessions = @ \cup {session_id}],
               session_id |-> session_id ]

\* faulty variant, for comparison: the message filed under the user's first session
add_message_first_session(hs, user_id, session_id, message, fails) ==
    IF hs.client /\ ~fails
    THEN LET peer_id == IF message.role = "user" THEN user_id ELSE "assistant"
         IN  [hs EXCEPT !.remote.messages[SessionId(user_id, 0)] =
                     Append(@, [peer_id |-> peer_id, content |-> message.content])]
    ELSE [hs EXCEPT !.fallback_messages[SessionId(user_id, 0)] =
                     Append(@, [role |-> message.role, content |-> message.content])]

\* HonchoService.add_message
add_message(hs, user_id, session_id, message, fails) ==
    IF hs.client /\ ~fails
    THEN LET peer_id == IF message.role = "user" THEN user_id ELSE "assistant"
         IN  [hs EXCEPT !.remote.messages[session_id] =
                     Append(@, [peer_id |-> peer_id, content |-> message.content])]
    ELSE [hs EXCEPT !.fallback_messages[session_id] =
                     Append(@, [role |-> message.role, content |-> message.content])]

\* HonchoService.get_chat_history
get_chat_history(hs, user_id, session_id, limit, fails) ==
    IF hs.client /\ ~fails
    THEN LET messages == hs.remote.messages[session_id]
             chat_history ==
                 [i \in 1..Len(messages) |->
                     [ role |-> IF messages[i].peer_id = "assistant"
                                THEN "assistant" ELSE "user",
                       content |-> messages[i].content ]]
         IN  IF Len(chat_history) > limit THEN SliceLast(chat_history, limit)
             ELSE chat_history
    ELSE SliceLast(hs.fallback_messages[session_id], limit)

\* FlowgladService.create_checkout_session: three POSTs; a status other than 200/201 or
\* an exception at any of them gives None
create_checkout_session(pay) ==
    IF pay.outcome = "ok" THEN [t |-> "dict", id |-> "cs_1", status |-> "open"]
    ELSE [t |-> "none", id |-> "", status |-> ""]

\* FlowgladService.verify_payment: the session for status 200, else None
verify_payment(pay) ==
    IF pay.outcome = "ok" THEN [t |-> "dict", id |-> "cs_1", status |-> pay.status]
    ELSE [t |-> "none", id |-> "", status |-> ""]

\* CourtListenerService.get_case_details: the decoded body; None when the request
\* fails (httpx.HTTPError); any other exception leaves the service
get_case_details(api) ==
    IF api.outcome = "http_error" THEN Return([t |-> "none", id |-> ""])
    ELSE IF api.outcome = "other_error"
    THEN Raise("JSONDecodeError", "Expecting value: line 1 column 1 (char 0)")
    ELSE IF api.outcome = "empty" THEN Return([t |-> "dict", id |-> ""])
    ELSE Return([t |-> "dict", id |-> "opinion"])

\* what the identity provider says of a token: it knows no user for the empty token
ProviderAnswer(token, verify) ==
    IF verify = "user" /\ token = <<>> THEN "no_user" ELSE verify

\* AuthService.verify_token: the user, or None when the provider knows none or raises
verify_token(token, verify) ==
    IF ProviderAnswer(token, verify) = "user" THEN [t |-> "dict", user_id |-> "u1"]
    ELSE [t |-> "none", user_id |-> ""]

\* AuthService.get_user_profile: the profile row, or None (no row, or the query raises)
get_user_profile(user_id, profile) ==
    IF profile = "found" THEN [t |-> "dict", id |-> user_id]
    ELSE [t |-> "none", id |-> ""]

-----------------------------------------------------------------------------
(* Backend routes: src/backend/api/routes *)

NoBody ==
    [ response |-> "", session_id |-> NoSession, can_generate_demand_notice |-> FALSE,
      cases |-> <<>>, payment_status |-> "", case_details |-> "", profile |-> "",
      history |-> <<>> ]

Respond(status, detail, body) == [status |-> status, detail |-> detail, body |-> body]

\* except Exception as e: raise HTTPException(status_code=500, detail=f"<prefix>: {str(e)}")
ServerError(prefix, raised) == Respond(500, <<prefix, raised.msg>>, NoBody)

\* what a route hands back besides the response: the memory provider's store, the
\* service calls made in order, and the locals the properties speak of
Handled(resp, remote, steps, loc) ==
    [response |-> resp, remote |-> remote, steps |-> steps, loc |-> loc, logged |-> <<>>]

NoRouteLocals ==
    [ session_id |-> NoSession, chat_history |-> <<>>, relevant_cases |-> <<>>,
      search |-> "not_called", ai |-> "not_called", pay |-> "not_called",
      details |-> "not_called", api_results |-> <<>>, auth |-> "not_called",
      sessions_before |-> {}, sessions_after |-> {}, fallback_sessions |-> {},
      remote_before |-> <<>>, fallback_messages |-> <<>>, saved_elsewhere |-> FALSE,
      memory |-> [client |-> FALSE, fails |-> {}], ai_messages |-> <<>> ]

\* what the request did to the memory: the provider's sessions before and after, the
\* sessions of the service's own fallback store, the provider's messages of the
\* request's session before the request, the fallback store's messages of that session,
\* and whether a message was saved under any other session
MemoryLocals(loc, remote, hs, session_id) ==
    [loc EXCEPT
        !.sessions_before = remote.sessions,
        !.sessions_after = hs.remote.sessions,
        !.fallback_sessions = hs.fallback_sessions,
        !.remote_before = remote.messages[session_id],
        !.fallback_messages = hs.fallback_messages[session_id],
        !.saved_elsewhere =
            \E sid \in DOMAIN remote.messages :
                /\ sid # session_id
                /\ \/ hs.remote.messages[sid] # remote.messages[sid]
                   \/ hs.fallback_messages[sid] # <<>>]

\* str.startswith
StartsWith(s, prefix) ==
    Len(s) >= Len(prefix) /\ SubSeq(s, 1, Len(prefix)) = prefix

\* str.split(sep) for a separator of one character
RECURSIVE Split(_, _)
Split(s, sep) ==
    IF \A i \in 1..Len(s) : s[i] # sep THEN <<s>>
    ELSE LET i == CHOOSE i \in 1..Len(s) : s[i] = sep /\ \A j \in 1..(i - 1) : s[j] # sep
         IN  <<SubSeq(s, 1, i - 1)>> \o Split(SubSeq(s, i + 1, Len(s)), sep)

BearerPrefix == <<"B", "e", "a", "r", "e", "r", " ">>

\* not authorization or not authorization.startswith("Bearer ")
HeaderRejected(authorization) ==
    \/ authorization.t = "none"
    \/ authorization.s = <<>>
    \/ ~StartsWith(authorization.s, BearerPrefix)

\* authorization.split(" ")[1]
TokenOf(authorization) == Split(authorization.s, " ")[2]

\* faulty variant, for comparison: every header that is present goes to the provider
get_current_user_any_scheme(auth) ==
    IF auth.header.t = "none" \/ Len(Split(auth.header.s, " ")) < 2
    THEN Raise("HTTPException", "401: Missing or invalid authorization header")
    ELSE LET user_data == verify_token(TokenOf(auth.header), auth.verify)
         IN  IF user_data.t = "none"
             THEN Raise("HTTPException", "401: Invalid or expired token")
             ELSE Return(user_data)

\* get_current_user: 401 unless the header is "Bearer <token>" and the token verifies
get_current_user(auth) ==
    IF HeaderRejected(auth.header)
    THEN Raise("HTTPException", "401: Missing or invalid authorization header")
    ELSE LET user_data == verify_token(TokenOf(auth.header), auth.verify)
         IN  IF user_data.t = "none"
             THEN Raise("HTTPException", "401: Invalid or expired token")
             ELSE Return(user_data)

\* the call get_current_user makes to the identity provider, if it makes one
AuthSteps(auth) == IF HeaderRejected(auth.header) THEN <<>> ELSE <<"verify_token">>
AuthLocals(auth) ==
    [NoRouteLocals EXCEPT
        !.auth = IF HeaderRejected(auth.header) THEN "not_called"
                 ELSE ProviderAnswer(TokenOf(auth.header), auth.verify)]

Unauthorized(raised) == Respond(401, <<"", raised.msg>>, NoBody)

\* POST /chat/message
send_message(request, env, remote, t, sessions) ==
    LET hs0 == NewHonchoService(env.client, remote, sessions)
        made == IF request.session_id = NoSession
                THEN create_session(hs0, request.user_id, t, "create_session" \in env.fails)
                ELSE [hs |-> hs0, session_id |-> request.session_id]
        session_id == made.session_id
        s1 == IF request.session_id = NoSession THEN <<"create_session">> ELSE <<>>
        relevant_cases == search_cases(env.search, 3)
        loc1 == [NoRouteLocals EXCEPT !.session_id = session_id,
                                      !.memory = [client |-> env.client,
                                                  fails |-> env.fails],
                                      !.search = env.search.outcome,
                                     !.api_results = env.search.results]
    IN  IF ~relevant_cases.ok
        THEN Handled(ServerError("Error processing message", relevant_cases),
                     made.hs.remote, s1 \o <<"search_cases">>,
                     MemoryLocals(loc1, remote, made.hs, session_id))
        ELSE
    LET chat_history == get_chat_history(made.hs, request.user_id, session_id, 10,
                                         "get_chat_history" \in env.fails)
        ai_result == generate_response(request.message, chat_history,
                                       relevant_cases.val, env.ai)
        s2 == s1 \o <<"search_cases", "get_chat_history", "generate_response">>
        loc2 == [loc1 EXCEPT !.chat_history = chat_history,
                             !.ai_messages = AiMessages(request.message, chat_history),
                             !.relevant_cases = relevant_cases.val,
                             !.ai = env.ai.outcome]
    IN  IF ~ai_result.ok
        THEN Handled(ServerError("Error processing message", ai_result),
                     made.hs.remote, s2, MemoryLocals(loc2, remote, made.hs, session_id))
        ELSE
    LET hs1 == add_message(made.hs, request.user_id, session_id,
                           [role |-> "user", content |-> request.message],
                           "add_user_message" \in env.fails)
        hs2 == add_message(hs1, request.user_id, session_id,
                           [role |-> "assistant", content |-> ai_result.val.response],
                           "add_ai_message" \in env.fails)
    IN  Handled(Respond(200, <<"", "">>,
                        [NoBody EXCEPT
                            !.response = ai_result.val.response,
                            !.session_id = session_id,
                            !.can_generate_demand_notice =
                                ai_result.val.can_generate_demand_notice]),
                hs2.remote, s2 \o <<"add_user_message", "add_ai_message">>,
                MemoryLocals(loc2, remote, hs2, session_id))

\* POST /cases/search
search_cases_route(request, env, remote) ==
    LET cases == search_cases(env.search, request.limit)
        loc == [NoRouteLocals EXCEPT !.search = env.search.outcome,
                                     !.api_results = env.search.results]
    IN  IF ~cases.ok
        THEN Handled(ServerError("Error searching cases", cases), remote,
                     <<"search_cases">>, loc)
        ELSE Handled(Respond(200, <<"", "">>, [NoBody EXCEPT !.cases = cases.val]), remote,
                     <<"search_cases">>, [loc EXCEPT !.relevant_cases = cases.val])

\* POST /demand-notice/generate
generate_demand_notice(request, env, remote, sessions) ==
    LET memory_service == NewHonchoService(env.client, remote, sessions)
        chat_history == get_chat_history(memory_service, request.user_id,
                                         request.session_id, 20,
                                         "get_chat_history" \in env.fails)
        relevant_cases == search_cases(env.search, 3)
        loc == [NoRouteLocals EXCEPT !.session_id = request.session_id,
                                     !.memory = [client |-> env.client,
                                                 fails |-> env.fails],
                                     !.chat_history = chat_history,
                                     !.search = env.search.outcome,
                                     !.api_results = env.search.results]
        steps == <<"get_chat_history", "search_cases">>
    IN  IF ~relevant_cases.ok
        THEN Handled(ServerError("Error generating demand notice", relevant_cases),
                     remote, steps, loc)
        ELSE Handled(Respond(200, <<"", "">>, [NoBody EXCEPT !.cases = relevant_cases.val]),
                     remote, steps \o <<"generate_notice">>,
                     [loc EXCEPT !.relevant_cases = relevant_cases.val])

\* POST /payment/create-checkout
create_checkout_route(env, remote) ==
    LET current_user == get_current_user(env.auth)
    IN  IF ~current_user.ok
        THEN Handled(Unauthorized(current_user), remote, AuthSteps(env.auth),
                     AuthLocals(env.auth))
        ELSE
    LET session == create_checkout_session(env.pay)
        steps == <<"verify_token", "create_checkout_session">>
        loc == [AuthLocals(env.auth) EXCEPT !.pay = env.pay.outcome]
    IN  IF session.t = "none"
        THEN Handled(ServerError("Payment error",
                                 Raise("HTTPException",
                                       "500: Failed to create payment session")),
                     remote, steps, loc)
        ELSE Handled(Respond(200, <<"", "">>,
                             [NoBody EXCEPT !.payment_status = session.status]),
                     remote, steps, loc)

\* AuthService.log_payment: the entry inserted, or nothing when the insert raises
log_payment(user_id, payment_data, log) ==
    IF log = "ok"
    THEN <<[user_id |-> user_id, session_id |-> payment_data.id,
            status |-> payment_data.status]>>
    ELSE <<>>

\* the handler's except Exception clause also catches the HTTPException raised in its
\* own try block
RouteCatches(exc) == TRUE

\* GET /payment/verify/{session_id}; logged: whether a payment log entry is written
verify_payment_route(env, remote) ==
    LET current_user == get_current_user(env.auth)
    IN  IF ~current_user.ok
        THEN Handled(Unauthorized(current_user), remote, AuthSteps(env.auth),
                     AuthLocals(env.auth))
        ELSE
    LET payment_data == verify_payment(env.pay)
        steps == <<"verify_token", "verify_payment">>
        loc == [AuthLocals(env.auth) EXCEPT !.pay = env.pay.outcome]
        not_found == Raise("HTTPException", "404: Payment session not found")
    IN  IF payment_data.t = "none"
        THEN IF RouteCatches(not_found.exc)
             THEN Handled(ServerError("Verification error", not_found), remote, steps, loc)
             ELSE Handled(Respond(404, <<"", "Payment session not found">>, NoBody),
                          remote, steps, loc)
        ELSE [Handled(Respond(200, <<"", "">>,
                              [NoBody EXCEPT !.payment_status = payment_data.status]),
                      remote, steps \o <<"log_payment">>, loc)
                EXCEPT !.logged = log_payment(current_user.val.user_id, payment_data,
                                              env.log)]

\* GET /chat/history/{user_id}/{session_id}
get_chat_history_route(request, env, remote, sessions) ==
    LET honcho_service == NewHonchoService(env.client, remote, sessions)
        history == get_chat_history(honcho_service, request.user_id, request.session_id,
                                    50, "get_chat_history" \in env.fails)
    IN  Handled(Respond(200, <<"", "">>, [NoBody EXCEPT !.history = history]), remote,
                <<"get_chat_history">>,
                [NoRouteLocals EXCEPT !.session_id = request.session_id,
                                      !.memory = [client |-> env.client,
                                                  fails |-> env.fails],
                                      !.chat_history = history])

\* GET /auth/profile
get_profile_route(env, remote) ==
    LET current_user == get_current_user(env.auth)
    IN  IF ~current_user.ok
        THEN Handled(Unauthorized(current_user), remote, AuthSteps(env.auth),
                     AuthLocals(env.auth))
        ELSE LET profile == get_user_profile(current_user.val.user_id, env.profile)
             IN  Handled(Respond(200, <<"", "">>, [NoBody EXCEPT !.profile = profile.id]),
                         remote, <<"verify_token", "get_user_profile">>,
                         AuthLocals(env.auth))

\* GET /cases/{case_id}: "not case_details" is true of None and of an empty object
get_case_details_route(env, remote) ==
    LET case_details == get_case_details(env.details)
        steps == <<"get_case_details">>
        loc == [NoRouteLocals EXCEPT !.details = env.details.outcome]
        not_found == Raise("HTTPException", "404: Case not found")
    IN  IF ~case_details.ok
        THEN Handled(ServerError("Error fetching case", case_details), remote, steps, loc)
        ELSE IF case_details.val.t = "none" \/ case_details.val.id = ""
        THEN IF RouteCatches(not_found.exc)
             THEN Handled(ServerError("Error fetching case", not_found), remote, steps, loc)
             ELSE Handled(Respond(404, <<"", "Case not found">>, NoBody), remote, steps, loc)
        ELSE Handled(Respond(200, <<"", "">>,
                             [NoBody EXCEPT !.case_details = case_details.val.id]),
                     remote, steps, loc)

-----------------------------------------------------------------------------
(* Inputs of the two pure functions *)

MaxKwPrefix == 2      \* freely chosen leading entries of a keyword list
MaxKwFill == 11       \* copies of one entry appended to them
MaxTextLen == 4       \* length of the texts given to truncate_text
MaxTruncLen == 3      \* largest max_length given to truncate_text

\* entries a caller may put in the search_keywords array
KwEntryPool ==
    { PyInt, PyNone,
      PyStr(<<>>), PyStr(<<" ">>), PyStr(<<"a", "b">>),
      PyStr(<<" ", "A", " ", "b", "\t">>),
      PyStr(Rep("a", MaxKeywordLen)), PyStr(Rep("a", MaxKeywordLen + 1)),
      PyStr(<<" ">> \o Rep("b", MaxKeywordLen)) }

RECURSIVE SeqsUpTo(_, _)
SeqsUpTo(S, n) ==
    IF n = 0 THEN {<<>>}
    ELSE LET shorter == SeqsUpTo(S, n - 1)
         IN  shorter \cup {Append(s, x) : s \in {q \in shorter : Len(q) = n - 1}, x \in S}

KeywordArgs ==
    {PyList(p \o Rep(f, k)) : p \in SeqsUpTo(KwEntryPool, MaxKwPrefix),
                              f \in {PyStr(<<"a", "b">>), PyInt}, k \in 0..MaxKwFill}
        \cup {PyNotList, PyStrArg(<<"a", "b">>), PyStrArg(<<>>)}

-----------------------------------------------------------------------------
(* Inputs of search_cases_by_problem and the answers of the case-law API *)

MaxSmallLimit == 2     \* the limit arguments tried are -1..MaxSmallLimit and those around the cap
MaxFreeResults == 2    \* result lists up to this length are arbitrary; longer ones repeat one

SearchKeywordArgs ==
    { [t |-> "absent", v |-> <<>>],
      PyNotList,
      PyList(<<PyInt>>),
      PyList(Rep(PyStr(<<"a", "b">>), MaxKeywords + 1)),
      PyList(<<PyStr(<<"a", "b">>)>>),
      PyList(<<PyStr(<<"b", "c">>), PyStr(<<" ", "A", " ">>)>>),
      PyList(<<PyStr(<<"b", " ", "c">>), PyInt, PyStr(<<"C", "D">>)>>),
      PyList(<<PyStr(<<"n", "o", "n", "e">>), PyStr(<<"a", "b">>), PyStr(<<"a", "b">>)>>),
      PyList(<<PyStr(ConsumerWord \o <<" ", "a">>), PyStr(<<"b">>)>>),
      PyList(<<PyStr(<<"a", " ", "C", "O", "N", "S", "U", "M", "E", "R">>)>>),
      \* five keywords and a sixth that names the consumer
      PyList(<< PyStr(<<"k">>), PyStr(<<"l">>), PyStr(<<"b">>), PyStr(<<"p">>), PyStr(<<"q">>),
                PyStr(ConsumerWord \o <<" ", "l", "a", "w">>) >>),
      \* as many keywords as a list may hold, the later ones found in the cases
      PyList(<< PyStr(<<"k">>), PyStr(<<"l">>), PyStr(<<"p">>), PyStr(<<"q">>), PyStr(<<"x">>),
                PyStr(<<"y">>), PyStr(<<"a">>), PyStr(<<"b">>), PyStr(<<"c", " ", "d">>),
                PyStr(<<"d">>) >>) }

SearchArgs ==
    [ search_keywords : SearchKeywordArgs,
      limit : {NoLimit, PyNum("none", 0), PyNum("float", 2)}
                  \cup {PyNum("int", n) :
                            n \in (-1..MaxSmallLimit) \cup (LimitCap - 1)..(LimitCap + 1)},
      date_range : {Absent} ]

\* the cases the API may hold (without their id)
ItemPool ==
    { [case_name |-> PyStr(<<"a", "b">>), snippet |-> PyStr(<<"c", "d">>),
       citation_count |-> PyNum("int", 5)],
      [case_name |-> PyStr(<<"A", " ", "B">>), snippet |-> Absent,
       citation_count |-> PyNum("absent", 0)],
      [case_name |-> PyNone, snippet |-> PyStr(<<"b", "c">>),
       citation_count |-> PyNum("int", 11)],
      [case_name |-> PyStr(<<"b">>), snippet |-> PyStr(<<"C", " ", "d">>),
       citation_count |-> PyNum("int", 3)],
      [case_name |-> Absent, snippet |-> PyStr(<<"a", "b">>),
       citation_count |-> PyNum("int", 5)] }

\* the API numbers its cases: the i-th result has id i
WithIds(l) ==
    [i \in 1..Len(l) |->
        [id |-> i, case_name |-> l[i].case_name, snippet |-> l[i].snippet,
         citation_count |-> l[i].citation_count]]

\* the list l repeated up to length n
Cycle(l, n) == [i \in 1..n |-> l[((i - 1) % Len(l)) + 1]]

\* The API answers a request for page_size results with at most page_size results: a short
\* list, or a full page.  A page_size that is no positive integer is not honoured, and
\* the API answers with a page of its own choice.
ResultLists(page_size) ==
    LET free == SeqsUpTo(ItemPool, MaxFreeResults)
    IN  IF page_size.t = "int" /\ page_size.n >= 1
        THEN {l \in free : Len(l) <= page_size.n}
                 \cup {Cycle(l, page_size.n) : l \in {q \in free : Len(q) >= 1}}
        ELSE free

NoResponseData == [count |-> 0, has_results |-> FALSE, results |-> <<>>]
NoResponse == [kind |-> "none", data |-> NoResponseData]

ApiResponses(params) ==
    {[kind |-> k, data |-> NoResponseData] :
        k \in {"transport_error", "status_error", "not_json", "not_object", "ok"}}
    \cup {[kind |-> "ok",
           data |-> [count |-> Len(l), has_results |-> TRUE, results |-> WithIds(l)]] :
             l \in ResultLists(params.page_size)}

NoArgs ==
    [search_keywords |-> [t |-> "absent", v |-> <<>>], limit |-> NoLimit, date_range |-> Absent]
NoLocals ==
    [ valid_keywords |-> <<>>, limit |-> NoLimit, date_range |-> Absent,
      current_date |-> [year |-> 1, month |-> 1, day |-> 1],
      params |-> [ q |-> <<>>, page_size |-> NoLimit,
                   filed_after |-> Absent, filed_before |-> Absent ] ]

\* no earlier call
NoRun == [called |-> FALSE, args |-> NoArgs, response |-> NoResponse, result |-> NoToolResult]

-----------------------------------------------------------------------------
(* Requests to the backend and the answers of the services it calls *)

MaxTime == 1        \* the clock runs from 0 to MaxTime
MaxRequests == 1    \* requests handled in one behaviour
MaxApiCases == 4    \* results the case-law API returns to the backend

Users == {"u1"}
SessionUniverse == {SessionId(u, t) : u \in Users, t \in 0..MaxTime}

ApiCaseList == [i \in 1..MaxApiCases |-> [id |-> i, caseName |-> "case"]]

SearchFailures == {[outcome |-> o, results |-> <<>>] : o \in {"http_error", "other_error"}}
SearchEnvs ==
    SearchFailures
        \cup {[outcome |-> "ok", results |-> SubSeq(ApiCaseList, 1, k)] : k \in 0..MaxApiCases}
\* for the routes that ask for three cases: no result, or more than three
ChatSearchEnvs ==
    SearchFailures
        \cup {[outcome |-> "ok", results |-> SubSeq(ApiCaseList, 1, k)] : k \in {0, MaxApiCases}}

\* no client at all, or a client of which at most one call fails
HonchoEnvs ==
    {[client |-> FALSE, fails |-> {}], [client |-> TRUE, fails |-> {}]}
        \cup {[client |-> TRUE, fails |-> {c}] : c \in {"create_session", "get_chat_history",
                                                   "add_user_message", "add_ai_message"}}

\* Authorization headers: none, empty, the scheme alone, with an empty token, with a
\* token, in lower case, another scheme, with two spaces, with a leading space
AuthorizationHeaders ==
    { PyNone, PyStr(<<>>),
      PyStr(<<"B", "e", "a", "r", "e", "r">>),
      PyStr(BearerPrefix),
      PyStr(BearerPrefix \o <<"t">>),
      PyStr(<<"b", "e", "a", "r", "e", "r", " ", "t">>),
      PyStr(<<"B", "a", "s", "i", "c", " ", "t">>),
      PyStr(BearerPrefix \o <<" ", "t">>),
      PyStr(<<" ">> \o BearerPrefix \o <<"t">>) }
\* the header of the request, and what the provider would say of a token
AuthEnvs == [header : AuthorizationHeaders, verify : {"user", "no_user", "exception"}]

PayEnvs ==
    {[outcome |-> "ok", status |-> st] : st \in {"complete", "open"}}
        \cup {[outcome |-> o, status |-> ""] : o \in {"http_error", "other_error"}}

ChatRequests ==
    [user_id : Users, session_id : {NoSession} \cup SessionUniverse, message : {"m"}]
ChatEnvs ==
    {[client |-> h.client, fails |-> h.fails, search |-> se, ai |-> ai] :
        h \in HonchoEnvs, se \in ChatSearchEnvs,
        ai \in {[outcome |-> "ok", content |-> c] :
                   c \in {"reply", "reply: send a demand letter"}}
               \cup {[outcome |-> o, content |-> ""] : o \in {"http_error", "other_error"}}}

DemandRequests == [user_id : Users, session_id : SessionUniverse]
DemandEnvs ==
    {[client |-> h.client, fails |-> h.fails, search |-> se] :
        h \in {e \in HonchoEnvs : e.fails \subseteq {"get_chat_history"}},
        se \in ChatSearchEnvs}

\* the routes that only read the history
HistoryEnvs == {e \in HonchoEnvs : e.fails \subseteq {"get_chat_history"}}

NoRemote == [sessions |-> {}, messages |-> [sid \in SessionUniverse |-> <<>>]]
\* the provider's store after an earlier exchange of a user: the session created at time
\* 0, the user's message and the assistant's answer
EarlierExchange ==
    LET u == CHOOSE u \in Users : TRUE
        sid == SessionId(u, 0)
    IN  [ sessions |-> {sid},
          messages |-> [NoRemote.messages EXCEPT ![sid] =
                           << [peer_id |-> u, content |-> "m"],
                              [peer_id |-> "assistant", content |-> "reply"] >>] ]
NoRequest ==
    [ user_id |-> "", session_id |-> NoSession, message |-> "", limit |-> 0,
      authorization |-> PyNone ]
NoLast ==
    [ route |-> "none", request |-> NoRequest,
      response |-> Respond(0, <<"", "">>, NoBody), steps |-> <<>>, loc |-> NoRouteLocals,
      logged |-> <<>> ]

-----------------------------------------------------------------------------
(* The variables of the parts that a specification leaves alone *)

VkIdle == /\ vk_in = PyNotList /\ vk_out = NotCalled
TtIdle == /\ tt_text = PyNone /\ tt_max = 0 /\ tt_out = NotCalled
SearchIdle ==
    /\ pc = "idle"
    /\ args = NoArgs
    /\ locals = NoLocals
    /\ http_requests = <<>>
    /\ response = NoResponse
    /\ scored_results = <<>>
    /\ tool_result = NoToolResult
    /\ first_run = NoRun
BackendIdle ==
    /\ now = 0
    /\ honcho_remote = NoRemote
    /\ payment_log = <<>>
    /\ n_requests = 0
    /\ max_requests = 0
    /\ last_request = NoLast

-----------------------------------------------------------------------------
(* validate_search_keywords applied to every input *)

InitValidate ==
    /\ vk_in \in KeywordArgs
    /\ vk_out = NotCalled
    /\ TtIdle
    /\ SearchIdle
    /\ BackendIdle

Validate ==
    /\ vk_out = NotCalled
    /\ vk_out' = validate_search_keywords(vk_in)
    /\ UNCHANGED <<vk_in, ttvars, svars, bvars>>

NextValidate == Validate

(* truncate_text applied to every input *)

InitTruncate ==
    /\ tt_text \in {PyNone} \cup {PyStr(s) : s \in SeqsUpTo({"a", "B", " "}, MaxTextLen)}
    /\ tt_max \in 0..MaxTruncLen
    /\ tt_out = NotCalled
    /\ VkIdle
    /\ SearchIdle
    /\ BackendIdle

Truncate ==
    /\ tt_out = NotCalled
    /\ tt_out' = Return(truncate_text(tt_text, tt_max))
    /\ UNCHANGED <<tt_text, tt_max, vkvars, svars, bvars>>

NextTruncate == Truncate

-----------------------------------------------------------------------------
(* One call of search_cases_by_problem *)

InitSearch ==
    /\ SearchIdle
    /\ VkIdle
    /\ TtIdle
    /\ BackendIdle

\* The call up to `await self.http_client.get(...)`: either the body has already
\* raised and the call returns the error result, or the request goes out.
SearchCall(a, current_date) ==
    /\ pc = "idle"
    /\ args' = a
    /\ LET prep == SearchPrepare(a, current_date)
       IN  IF prep.ok
           THEN /\ locals' = prep.val
                /\ http_requests' = Append(http_requests, prep.val.params)
                /\ pc' = "awaiting"
                /\ tool_result' = tool_result
           ELSE /\ locals' = locals
                /\ http_requests' = http_requests
                /\ pc' = "done"
                /\ tool_result' = SearchOutcome(prep)
    /\ UNCHANGED <<response, scored_results, first_run, vkvars, ttvars, bvars>>

\* The case-law API answers the request.
ApiRespond(r) ==
    /\ pc = "awaiting"
    /\ response' = r
    /\ pc' = "responded"
    /\ UNCHANGED <<args, locals, http_requests, scored_results, tool_result, first_run,
                   vkvars, ttvars, bvars>>

\* The call from the response on: raise_for_status, json, scoring, sorting, formatting.
SearchFinish ==
    /\ pc = "responded"
    /\ scored_results' =
          IF response.kind = "ok"
          THEN ScoreResults(ResultsOf(response.data), locals.valid_keywords)
          ELSE scored_results
    /\ tool_result' = SearchOutcome(SearchProcess(locals, response))
    /\ pc' = "done"
    /\ UNCHANGED <<args, locals, http_requests, response, first_run, vkvars, ttvars, bvars>>

\* The tool is called once more: the server keeps nothing of the call that has returned.
\* What the first call was given and what it returned is noted, for comparison.
SearchAgain ==
    /\ pc = "done"
    /\ ~first_run.called
    /\ first_run' = [called |-> TRUE, args |-> args, response |-> response,
                     result |-> tool_result]
    /\ pc' = "idle"
    /\ args' = NoArgs
    /\ locals' = NoLocals
    /\ http_requests' = <<>>
    /\ response' = NoResponse
    /\ scored_results' = <<>>
    /\ tool_result' = NoToolResult
    /\ UNCHANGED <<vkvars, ttvars, bvars>>

NextSearch ==
    \/ \E a \in SearchArgs : SearchCall(a, [year |-> 2026, month |-> 11, day |-> 3])
    \/ \E r \in ApiResponses(locals.params) : ApiRespond(r)
    \/ SearchFinish

-----------------------------------------------------------------------------
(* Calls of search_cases_by_problem on different days and with different date ranges *)

MaxDayOffset == 1   \* the days tried are those up to this many days after the days below

\* what datetime.now() may answer: leap days, ends of years, days whose bounds fall on them
Todays ==
    { FromOrdinal(ToOrdinal(d) + k) :
        d \in { [year |-> 2024, month |-> 2, day |-> 29],
                [year |-> 2026, month |-> 11, day |-> 3],
                [year |-> 2026, month |-> 12, day |-> 30],
                [year |-> 2028, month |-> 2, day |-> 28],
                [year |-> 2029, month |-> 12, day |-> 31],
                [year |-> 2102, month |-> 2, day |-> 28] },
        k \in 0..MaxDayOffset }

NextDates ==
    \/ \E a \in [ search_keywords : {PyList(<<PyStr(<<"a", "b">>)>>), PyNotList},
                   limit : {PyNum("int", 1)},
                   \* absent, None, a number, the values of the schema, other strings
                   date_range :
                       { Absent, PyNone, PyInt,
                         PyStr(<<"r", "e", "c", "e", "n", "t", "-", "2", "y", "e", "a", "r", "s">>),
                         PyStr(<<"e", "s", "t", "a", "b", "l", "i", "s", "h", "e", "d", "-",
                                 "p", "r", "e", "c", "e", "d", "e", "n", "t">>),
                         PyStr(<<"a", "l", "l", "-", "t", "i", "m", "e">>),
                         PyStr(<<"R", "e", "c", "e", "n", "t", "-", "2", "y", "e", "a", "r", "s">>),
                         PyStr(<<>>) } ],
          d \in Todays : SearchCall(a, d)
    \/ \E r \in ApiResponses(locals.params) : ApiRespond(r)
    \/ SearchFinish

-----------------------------------------------------------------------------
(* Two calls of search_cases_by_problem, one after the other *)

\* The calls are made on different days, with one or two keywords and a limit of one or
\* two cases; the API answers with an error or with cases that have the same number of
\* citations, so that cases tie whenever they match the same number of keywords.
NextRepeat ==
    \/ \E a \in [ search_keywords : { PyList(<<PyStr(<<"a", "b">>)>>),
                                       PyList(<<PyStr(<<"b">>), PyStr(<<"c", "d">>)>>) },
                   limit : {PyNum("int", 1), PyNum("int", 2)}, date_range : {Absent} ],
          d \in { [year |-> 2026, month |-> 11, day |-> 3],
                  [year |-> 2028, month |-> 2, day |-> 29] } : SearchCall(a, d)
    \/ \E r \in { x \in ApiResponses(locals.params) :
                      /\ x.kind \in {"ok", "status_error"}
                      /\ \A i \in 1..Len(x.data.results) :
                             x.data.results[i].citation_count = PyNum("int", 5) } :
          ApiRespond(r)
    \/ SearchFinish
    \/ SearchAgain

-----------------------------------------------------------------------------
(* The backend handling requests one after the other *)

\* the provider's store outlives the backend: it is empty, or holds an earlier exchange
InitBackend ==
    /\ now = 0
    /\ honcho_remote \in {NoRemote, EarlierExchange}
    /\ payment_log = <<>>
    /\ n_requests = 0
    /\ max_requests = MaxRequests
    /\ last_request = NoLast
    /\ VkIdle
    /\ TtIdle
    /\ SearchIdle

Tick ==
    /\ now < MaxTime
    /\ now' = now + 1
    /\ UNCHANGED <<honcho_remote, payment_log, n_requests, max_requests, last_request,
                   vkvars, ttvars, svars>>

\* one request handled by a route: the stores updated, the exchange recorded
Handle(route, request, handled) ==
    /\ n_requests' = n_requests + 1
    /\ honcho_remote' = handled.remote
    /\ payment_log' = payment_log \o handled.logged
    /\ last_request' = [ route |-> route, request |-> request, response |-> handled.response,
                         steps |-> handled.steps, loc |-> handled.loc,
                         logged |-> handled.logged ]
    /\ UNCHANGED <<now, max_requests, vkvars, ttvars, svars>>

SendMessage(request, env) ==
    /\ n_requests < max_requests
    /\ Handle("send_message",
              [NoRequest EXCEPT !.user_id = request.user_id,
                                !.session_id = request.session_id,
                                !.message = request.message],
              send_message(request, env, honcho_remote, now, SessionUniverse))

SearchCases(request, env) ==
    /\ n_requests < max_requests
    /\ Handle("search_cases", [NoRequest EXCEPT !.limit = request.limit],
              search_cases_route(request, env, honcho_remote))

GenerateDemandNotice(request, env) ==
    /\ n_requests < max_requests
    /\ Handle("generate_demand_notice",
              [NoRequest EXCEPT !.user_id = request.user_id,
                                !.session_id = request.session_id],
              generate_demand_notice(request, env, honcho_remote, SessionUniverse))

CreateCheckout(env) ==
    /\ n_requests < max_requests
    /\ Handle("create_checkout_session",
              [NoRequest EXCEPT !.authorization = env.auth.header],
              create_checkout_route(env, honcho_remote))

VerifyPayment(env) ==
    /\ n_requests < max_requests
    /\ Handle("verify_payment", [NoRequest EXCEPT !.authorization = env.auth.header],
              verify_payment_route(env, honcho_remote))

GetCaseDetails(env) ==
    /\ n_requests < max_requests
    /\ Handle("get_case_details", NoRequest, get_case_details_route(env, honcho_remote))

GetChatHistory(request, env) ==
    /\ n_requests < max_requests
    /\ Handle("get_chat_history",
              [NoRequest EXCEPT !.user_id = request.user_id,
                                !.session_id = request.session_id],
              get_chat_history_route(request, env, honcho_remote, SessionUniverse))

GetProfile(env) ==
    /\ n_requests < max_requests
    /\ Handle("get_profile", [NoRequest EXCEPT !.authorization = env.auth.header],
              get_profile_route(env, honcho_remote))

NextBackend ==
    \/ Tick
    \/ \E request \in ChatRequests, env \in ChatEnvs : SendMessage(request, env)
    \/ \E request \in [limit : -1..(MaxApiCases + 1)], env \in [search : SearchEnvs] :
            SearchCases(request, env)
    \/ \E request \in DemandRequests, env \in DemandEnvs : GenerateDemandNotice(request, env)
    \/ \E env \in [auth : AuthEnvs, pay : PayEnvs] : CreateCheckout(env)
    \/ \E env \in [auth : AuthEnvs, pay : PayEnvs, log : {"ok", "fails"}] : VerifyPayment(env)
    \/ \E env \in [details : [outcome : {"ok", "empty", "http_error", "other_error"}]] :
            GetCaseDetails(env)
    \/ \E env \in [auth : AuthEnvs, profile : {"found", "none"}] : GetProfile(env)
    \/ \E request \in DemandRequests, env \in HistoryEnvs : GetChatHistory(request, env)

\* Exchanges of one conversation and the requests that read its history: the searches
\* and the completions succeed, the memory provider is present, absent or failing
MaxExchanges == 2   \* requests handled in one behaviour of the conversation

InitHistory ==
    /\ now = 0
    /\ honcho_remote = NoRemote
    /\ payment_log = <<>>
    /\ n_requests = 0
    /\ max_requests = MaxExchanges
    /\ last_request = NoLast
    /\ VkIdle
    /\ TtIdle
    /\ SearchIdle

ConversationEnvs ==
    {env \in ChatEnvs : env.search.outcome = "ok" /\ env.search.results = <<>>
                          /\ env.ai.outcome = "ok"}
NextHistory ==
    \/ Tick
    \/ \E request \in ChatRequests, env \in ConversationEnvs : SendMessage(request, env)
    \/ \E request \in DemandRequests,
          env \in {e \in DemandEnvs : e.search.outcome = "ok" /\ e.search.results = <<>>} :
            GenerateDemandNotice(request, env)
    \/ \E request \in DemandRequests, env \in HistoryEnvs : GetChatHistory(request, env)

\* One chat message sent into a conversation of any length
MaxHistory == 12   \* messages the provider holds for the session at the start

\* the provider's store with n messages in the user's first session, the user and the
\* assistant taking turns
ConversationOf(n) ==
    LET u == CHOOSE u \in Users : TRUE
        sid == SessionId(u, 0)
    IN  [ sessions |-> {sid},
          messages |-> [NoRemote.messages EXCEPT ![sid] =
                           [k \in 1..n |->
                               [ peer_id |-> IF k % 2 = 1 THEN u ELSE "assistant",
                                 content |-> ToString(k) ]]] ]

InitMessages ==
    /\ now = 0
    /\ honcho_remote \in {ConversationOf(n) : n \in 0..MaxHistory}
    /\ payment_log = <<>>
    /\ n_requests = 0
    /\ max_requests = 1
    /\ last_request = NoLast
    /\ VkIdle
    /\ TtIdle
    /\ SearchIdle

NextMessages ==
    \E request \in ChatRequests, env \in ConversationEnvs : SendMessage(request, env)

vars == <<vkvars, ttvars, svars, bvars>>

SpecValidate == InitValidate /\ [][NextValidate]_vars
SpecTruncate == InitTruncate /\ [][NextTruncate]_vars
SpecSearch == InitSearch /\ [][NextSearch]_vars
SpecDates == InitSearch /\ [][NextDates]_vars
SpecRepeat == InitSearch /\ [][NextRepeat]_vars
SpecBackend == InitBackend /\ [][NextBackend]_vars
SpecHistory == InitHistory /\ [][NextHistory]_vars
SpecMessages == InitMessages /\ [][NextMessages]_vars

-----------------------------------------------------------------------------
(* Properties of validate_search_keywords, checked under SpecValidate *)

VkCalled == vk_out # NotCalled

\* a keyword the documentation calls valid: a string, not blank, of at most 100 characters
IsBlank(s) == \A i \in 1..Len(s) : IsSpace(s[i])
IsValidEntry(e) == e.t = "str" /\ ~IsBlank(e.s) /\ Len(e.s) <= 100
ValidIndexes(v) == {i \in 1..Len(v) : IsValidEntry(v[i])}

\* out is s without its leading and trailing whitespace
IsStripped(out, s) ==
    /\ Len(out) > 0
    /\ ~IsSpace(out[1]) /\ ~IsSpace(out[Len(out)])
    /\ \E a \in 0..Len(s) :
          /\ a + Len(out) <= Len(s)
          /\ SubSeq(s, a + 1, a + Len(out)) = out
          /\ \A i \in 1..a : IsSpace(s[i])
          /\ \A i \in (a + Len(out) + 1)..Len(s) : IsSpace(s[i])

\* C5: an input that is not a list, or is an empty list, is rejected with ValueError
\* and nothing is returned for it.
C5_RejectsNonList ==
    (VkCalled /\ (vk_in.t # "list" \/ Len(vk_in.v) = 0))
        => (~vk_out.ok /\ vk_out.exc = "ValueError")

C5_Witness ==
    /\ VkCalled
    /\ vk_in.t = "str" /\ Len(vk_in.v) > 0
    /\ vk_out.exc = "ValueError"

\* C6: a list of more than 10 entries is rejected with ValueError whatever its entries
\* are (the entries are counted before filtering), and a list of 1 to 10 entries with at
\* least one valid keyword is accepted.
C6_TenEntryLimit ==
    (VkCalled /\ vk_in.t = "list")
        => /\ Len(vk_in.v) > 10 => (~vk_out.ok /\ vk_out.exc = "ValueError")
           /\ (Len(vk_in.v) \in 1..10 /\ ValidIndexes(vk_in.v) # {}) => vk_out.ok

C6_Witness ==
    /\ VkCalled
    /\ vk_in.t = "list" /\ Len(vk_in.v) = 11
    /\ Cardinality(ValidIndexes(vk_in.v)) \in 1..10
    /\ vk_out.exc = "ValueError"

\* C7: for a list of 1 to 10 entries the result is the valid entries (strings, not
\* blank, at most 100 characters), each stripped, in their original order; every
\* returned keyword is a non-empty string of at most 100 characters; and when no entry
\* is valid ValueError is raised instead of an empty list being returned.
C7_FiltersAndStrips ==
    (VkCalled /\ vk_in.t = "list" /\ Len(vk_in.v) \in 1..10)
        => LET v    == vk_in.v
               kept == ValidIndexes(v)
               nth(j) == CHOOSE i \in kept : Cardinality({k \in kept : k <= i}) = j
           IN  IF kept = {}
               THEN ~vk_out.ok /\ vk_out.exc = "ValueError"
               ELSE /\ vk_out.ok
                    /\ Len(vk_out.val) = Cardinality(kept)
                    /\ \A j \in 1..Len(vk_out.val) :
                          /\ IsStripped(vk_out.val[j], v[nth(j)].s)
                          /\ Len(vk_out.val[j]) \in 1..100

C7_Witness ==
    /\ VkCalled /\ vk_out.ok
    /\ vk_in.t = "list" /\ Len(vk_in.v) \in 2..10
    /\ vk_in.v[1].t # "str"
    /\ vk_in.v[2].t = "str" /\ Len(vk_in.v[2].s) > 1 /\ IsSpace(vk_in.v[2].s[1])
    /\ Len(vk_out.val) = Len(vk_in.v) - 1

-----------------------------------------------------------------------------
(* Properties of truncate_text, checked under SpecTruncate *)

TtCalled == tt_out # NotCalled

\* C8: missing or empty text gives the empty string; text of at most max_length
\* characters is returned unchanged; longer text gives its first max_length characters
\* followed by the marker; so the result is never longer than max_length plus the
\* marker's length.
C8_Truncation ==
    TtCalled
        => LET out == tt_out.val
               s   == tt_text.s
           IN  /\ (tt_text.t = "none" \/ Len(s) = 0) => Len(out) = 0
               /\ (tt_text.t = "str" /\ Len(s) <= tt_max) => out = s
               /\ (tt_text.t = "str" /\ Len(s) > tt_max)
                     => out = SubSeq(s, 1, tt_max) \o TruncationMarker
               /\ Len(out) <= tt_max + Len(TruncationMarker)

C8_Witness ==
    /\ TtCalled
    /\ tt_text.t = "str" /\ tt_max >= 1 /\ Len(tt_text.s) > tt_max
    /\ Len(tt_out.val) = tt_max + 79

-----------------------------------------------------------------------------
(* Properties of search_cases_by_problem, checked under SpecSearch *)

\* the call has returned a result without an "error" field
SearchOk == pc = "done" /\ tool_result.status = "returned" /\ tool_result.error = ""
Cases == tool_result.data.cases

\* the limit argument, with its default
LimitArg == IF args.limit.t = "absent" THEN 10 ELSE args.limit.n

\* C1: the returned cases are in descending order of (keyword_matches, citation_count).
C1_SortedDescending ==
    SearchOk
        => \A i \in 1..(Len(Cases) - 1) :
              \/ Cases[i].keyword_matches > Cases[i + 1].keyword_matches
              \/ /\ Cases[i].keyword_matches = Cases[i + 1].keyword_matches
                 /\ Cases[i].citation_count >= Cases[i + 1].citation_count

C1_Witness ==
    /\ SearchOk
    /\ \E i \in 1..(Len(Cases) - 1) :
          /\ Cases[i].case_id > Cases[i + 1].case_id
          /\ Cases[i].keyword_matches = Cases[i + 1].keyword_matches
          /\ Cases[i].citation_count > Cases[i + 1].citation_count

\* the number of keywords that occur, in lower case, in the text
MatchCount(keywords, text) ==
    Cardinality({k \in 1..Len(keywords) : IsSubstring(Lower(keywords[k]), text)})

\* a field as text: a missing field is empty, a null field prints as None
FieldText(f) ==
    IF f.t = "str" THEN f.s ELSE IF f.t = "none" THEN <<"N", "o", "n", "e">> ELSE <<>>

ScoresAre(score(_)) ==
    SearchOk
        => /\ \A i \in 1..Len(scored_results) :
                 scored_results[i].relevance_score = score(scored_results[i].item)
           /\ \A j \in 1..Len(Cases) :
                 \E i \in 1..Len(scored_results) :
                    /\ scored_results[i].item.id = Cases[j].case_id
                    /\ Cases[j].keyword_matches = score(scored_results[i].item)

\* C2 as stated: the score counts the keywords found in lowercase(case name + snippet).
ScoreOnConcatenation(item) ==
    MatchCount(locals.valid_keywords,
               Lower(FieldText(item.case_name) \o FieldText(item.snippet)))
C2_Original == ScoresAre(ScoreOnConcatenation)

\* C2 as amended: the score counts the keywords found in the lower-cased text made of
\* the case name, one space, and the snippet.
ScoreOnSpaceJoined(item) ==
    MatchCount(locals.valid_keywords,
               Lower(FieldText(item.case_name) \o <<" ">> \o FieldText(item.snippet)))
C2_ScoreCountsKeywords == ScoresAre(ScoreOnSpaceJoined)

C2_Witness ==
    /\ SearchOk
    /\ \E j \in 1..Len(Cases) : \E i \in 1..Len(scored_results) :
          /\ scored_results[i].item.id = Cases[j].case_id
          /\ Cases[j].keyword_matches = 2
          /\ ScoreOnConcatenation(scored_results[i].item) = 1

\* the rank of a candidate
Outranks(a, b) ==
    \/ a.relevance_score > b.relevance_score
    \/ /\ a.relevance_score = b.relevance_score
       /\ CitationCount(a.item) > CitationCount(b.item)

ReturnedIds == {Cases[j].case_id : j \in 1..Len(Cases)}

\* C3: with K = min(limit, 20), at most K cases are returned for every limit argument
\* (an empty answer never counts as more than K), and no candidate left out ranks
\* strictly above a returned one.
C3_TopK ==
    SearchOk
        => /\ \/ tool_result.data.returned_count <= Min(LimitArg, 20)
              \/ tool_result.data.returned_count = 0
           /\ \A i, j \in 1..Len(scored_results) :
                 (scored_results[i].item.id \notin ReturnedIds
                    /\ scored_results[j].item.id \in ReturnedIds)
                     => ~Outranks(scored_results[i], scored_results[j])

\* C4: every request asks for min(2 * limit, 40) results, limit being the argument
\* capped at 20, and no more than 40 candidates are scored.
C4_PageSizeBound ==
    /\ \A r \in 1..Len(http_requests) :
          /\ http_requests[r].page_size.n = Min(2 * Min(LimitArg, 20), 40)
          /\ http_requests[r].page_size.n <= 40
    /\ Len(scored_results) <= 40

C4_Witness ==
    /\ pc = "done"
    /\ LimitArg > 20
    /\ Len(http_requests) = 1 /\ http_requests[1].page_size.n = 40
    /\ Len(scored_results) = 40

\* the keywords of the call do not pass validation
KeywordsRejected == ~validate_search_keywords(KeywordsArg(args)).ok

\* C9: the call never raises; after a failure (invalid keywords, HTTP error status,
\* transport error, malformed response) the result carries an "error" field; and when
\* the keywords are invalid no request has been sent.
C9_NeverRaises ==
    /\ tool_result.status # "raised"
    /\ pc = "done"
          => /\ tool_result.status = "returned"
             /\ (KeywordsRejected \/ response.kind \notin {"none", "ok"})
                   => tool_result.error # ""
             /\ KeywordsRejected => Len(http_requests) = 0

C9_Witness ==
    /\ pc = "done"
    /\ KeywordsRejected
    /\ args.search_keywords.t = "list"
    /\ tool_result.status = "returned" /\ tool_result.error # ""
    /\ Len(http_requests) = 0

-----------------------------------------------------------------------------
(* C10: the answer to a request during which an external HTTP call failed *)

Handler == last_request.route
Status == last_request.response.status
Failures == {"http_error", "other_error"}
\* an external call made while handling the last request failed
ExternalCallFailed ==
    \/ last_request.loc.search \in Failures
    \/ last_request.loc.ai \in Failures
    \/ last_request.loc.pay \in Failures

\* C10 as stated: whenever an external HTTP call made while handling a chat message, a
\* case search, a demand notice or a payment request fails, the answer is an HTTP 500.
C10_Original ==
    (Handler # "none" /\ ExternalCallFailed) => Status = 500

\* C10: a failed external call never escapes a handler, and what the answer is depends
\* on how the call failed.  A failed case-law request (httpx.HTTPError) is absorbed by
\* the service as an empty list of cases, and a failed AI request as the apology with
\* no demand notice offered: the chat, case search and demand notice handlers then
\* answer 200.  They answer 500, with the handler's prefix and the exception's text,
\* exactly when another exception leaves the service.  The payment handlers answer 500
\* whenever the provider's call fails in either way.
C10_ExternalFailures ==
    LET loc == last_request.loc
        body == last_request.response.body
    IN  /\ Handler \in {"send_message", "search_cases", "generate_demand_notice"}
            => /\ Status \in {200, 500}
               /\ Status = 500 <=> (loc.search = "other_error" \/ loc.ai = "other_error")
               /\ (loc.search = "http_error" /\ Status = 200)
                    => loc.relevant_cases = <<>> /\ body.cases = <<>>
               /\ (loc.ai = "http_error" /\ Status = 200)
                    => body.response = Apology /\ ~body.can_generate_demand_notice
               /\ Status = 500
                    => /\ body = NoBody
                       /\ last_request.response.detail[1] \in
                            {"Error processing message", "Error searching cases",
                             "Error generating demand notice"}
        /\ (Handler \in {"create_checkout_session", "verify_payment"}
              /\ loc.pay \in Failures)
            => /\ Status = 500
               /\ body = NoBody

\* a chat message answered 200 with the apology although both the case-law request and
\* the AI request failed
C10_Witness ==
    /\ Handler = "send_message"
    /\ last_request.loc.search = "http_error"
    /\ last_request.loc.ai = "http_error"
    /\ Status = 200
    /\ last_request.response.body.response = Apology

-----------------------------------------------------------------------------
(* C11: the answer of GET /cases/{case_id} when the service has no details *)

\* the case-law service returned no details: None after a failed lookup, or nothing
NoCaseDetails == last_request.loc.details \in {"http_error", "empty"}

\* C11: GET /cases/{case_id} answers 404 "Case not found" whenever the case-law service
\* returns no details for the id, a failed upstream lookup included.
C11_NotFound ==
    (Handler = "get_case_details" /\ NoCaseDetails)
        => /\ Status = 404
           /\ last_request.response.detail[2] = "Case not found"

\* what the handler does instead: its own 404 is caught and answered as a 500
C11_AnsweredAsServerError ==
    (Handler = "get_case_details" /\ NoCaseDetails)
        => /\ Status = 500
           /\ last_request.response.detail = <<"Error fetching case", "404: Case not found">>

-----------------------------------------------------------------------------
(* C12: the answer of GET /payment/verify/{session_id} when there is no session *)

\* the payment provider returned no session for the id
NoPaymentSession ==
    /\ Handler = "verify_payment"
    /\ last_request.loc.pay \in Failures

\* C12: GET /payment/verify/{session_id} answers 404 "Payment session not found"
\* whenever the payment provider returns no session for the id, and then writes no
\* payment log entry.
C12_NotFound ==
    NoPaymentSession
        => /\ Status = 404
           /\ last_request.response.detail[2] = "Payment session not found"
           /\ last_request.logged = <<>>
           /\ "log_payment" \notin {last_request.steps[i] : i \in DOMAIN last_request.steps}

\* what the handler does instead: no log entry, but its own 404 answered as a 500
C12_AnsweredAsServerError ==
    NoPaymentSession
        => /\ Status = 500
           /\ last_request.response.detail =
                <<"Verification error", "404: Payment session not found">>
           /\ last_request.logged = <<>>

-----------------------------------------------------------------------------
(* C13: what CourtListenerService.search_cases returns *)

\* the limit the last request gave to search_cases
SearchLimit == IF Handler = "search_cases" THEN last_request.request.limit ELSE 3
SearchCalled == last_request.loc.search # "not_called"

\* C13: search_cases returns at most limit cases, mapped one-to-one from the first limit
\* results of the API response in the API's order, and returns an empty list, raising
\* nothing, when the HTTP call fails.
C13_FirstLimitResults ==
    LET loc == last_request.loc
        cases == loc.relevant_cases
    IN  SearchCalled
            => /\ loc.search = "ok"
                    => /\ Len(cases) <= SearchLimit \/ cases = <<>>
                       /\ Len(cases) = Min(Max(SearchLimit, 0), Len(loc.api_results))
                       /\ \A k \in 1..Len(cases) : cases[k] = LegalCase(loc.api_results[k])
               /\ loc.search = "http_error"
                    => cases = <<>> /\ (Status = 500 => loc.ai = "other_error")

\* the same for the limits that are not negative
C13_NonNegativeLimit == (SearchLimit >= 0) => C13_FirstLimitResults

-----------------------------------------------------------------------------
(* C14: get_current_user in front of the profile and payment handlers *)

GuardedHandlers == {"create_checkout_session", "verify_payment", "get_profile"}
StepsMade == {last_request.steps[i] : i \in DOMAIN last_request.steps}
\* the calls the guarded handlers make themselves
HandlerSteps ==
    {"create_checkout_session", "verify_payment", "log_payment", "get_user_profile"}
\* the header is there and its first seven characters are "Bearer "
IsBearerHeader(h) ==
    /\ h.t = "str"
    /\ Len(h.s) >= 7
    /\ \A i \in 1..7 : h.s[i] = BearerPrefix[i]

\* C14: a request whose Authorization header is missing or does not start with
\* "Bearer " is answered 401 without a call to the identity provider; a request whose
\* token the provider does not verify is answered 401; the profile and payment handlers
\* run only for a request that passed both checks.
C14_Unauthorized ==
    Handler \in GuardedHandlers
        => LET h == last_request.request.authorization
               loc == last_request.loc
           IN  /\ ~IsBearerHeader(h)
                    => /\ Status = 401
                       /\ last_request.steps = <<>>
                       /\ loc.auth = "not_called"
               /\ (IsBearerHeader(h) /\ loc.auth # "user")
                    => /\ Status = 401
                       /\ last_request.steps = <<"verify_token">>
               /\ (StepsMade \cap HandlerSteps # {} \/ Status # 401)
                    => /\ IsBearerHeader(h)
                       /\ last_request.steps[1] = "verify_token"
                       /\ loc.auth = "user"
               /\ Status = 401 => last_request.logged = <<>> /\ loc.pay = "not_called"

\* a payment verification refused for a header of another scheme, the provider not asked
C14_Witness ==
    /\ Handler = "verify_payment"
    /\ last_request.request.authorization.t = "str"
    /\ last_request.request.authorization.s # <<>>
    /\ ~IsBearerHeader(last_request.request.authorization)
    /\ Status = 401
    /\ last_request.steps = <<>>

-----------------------------------------------------------------------------
(* C15: the session of a chat exchange *)

ChatAnswered == Handler = "send_message" /\ Status = 200
\* the messages the last request saved under its session: those the provider holds
\* beyond what it held before, then those of the fallback store
SavedMessages ==
    LET after == honcho_remote.messages[last_request.loc.session_id]
        before == last_request.loc.remote_before
        added == SubSeq(after, Len(before) + 1, Len(after))
    IN  [k \in 1..Len(added) |->
            [ role |-> IF added[k].peer_id = "assistant" THEN "assistant" ELSE "user",
              content |-> added[k].content ]]
        \o last_request.loc.fallback_messages
SavedSet == {SavedMessages[k] : k \in DOMAIN SavedMessages}

-----------------------------------------------------------------------------
(* C16: the history a later request reads *)

HistoryReaders == {"get_chat_history", "send_message", "generate_demand_notice"}
\* the exchange a successful send_message saved
ExchangeOf(last) ==
    << [role |-> "user", content |-> last.request.message],
       [role |-> "assistant", content |-> last.response.body.response] >>
EndsWith(s, tail) ==
    Len(s) >= Len(tail) /\ SubSeq(s, Len(s) - Len(tail) + 1, Len(s)) = tail
\* a send_message has been answered 200 and the next request reads the history of the
\* same session
ReadsAfterExchange ==
    /\ ChatAnswered
    /\ n_requests' = n_requests + 1
    /\ last_request'.route \in HistoryReaders
    /\ last_request'.loc.session_id = last_request.loc.session_id
    /\ \E k \in DOMAIN last_request'.steps : last_request'.steps[k] = "get_chat_history"
\* every call to the memory provider succeeded in both requests
ProviderServedBoth ==
    /\ last_request.loc.memory = [client |-> TRUE, fails |-> {}]
    /\ last_request'.loc.memory.client
    /\ "get_chat_history" \notin last_request'.loc.memory.fails

\* C16: after a successful send_message for a session, the next request that reads the
\* history of that session (the history route, the next send_message, the demand
\* notice) finds the user's message followed by the assistant's reply at its end, with
\* the memory provider and with the fallback store alike.
C16_HistoryPersists ==
    [][ReadsAfterExchange
            => EndsWith(last_request'.loc.chat_history, ExchangeOf(last_request))]_vars

\* the same, for the requests the memory provider served
C16_WithProvider ==
    [][(ReadsAfterExchange /\ ProviderServedBoth)
            => EndsWith(last_request'.loc.chat_history, ExchangeOf(last_request))]_vars

\* the fallback store never carries an exchange to the next request
C16_FallbackForgets ==
    [][(ReadsAfterExchange /\ ~last_request.loc.memory.client)
            => last_request'.loc.chat_history = <<>>]_vars

-----------------------------------------------------------------------------
(* C17: the order of the steps of send_message *)

StepOrder ==
    <<"search_cases", "get_chat_history", "generate_response", "add_user_message",
      "add_ai_message">>
\* the steps of the last request after the creation of the session
StepsAfterSession == SelectSeq(last_request.steps, LAMBDA x : x # "create_session")
\* what the provider held for the session before the request, as chat messages
HistoryBefore ==
    LET before == last_request.loc.remote_before
    IN  [k \in 1..Len(before) |->
            [ role |-> IF before[k].peer_id = "assistant" THEN "assistant" ELSE "user",
              content |-> before[k].content ]]
NothingSaved ==
    /\ SavedMessages = <<>>
    /\ ~last_request.loc.saved_elsewhere

\* C17: within one send_message the steps are, in this order, case search, history
\* read, AI generation, save of the user message, save of the assistant message; so the
\* history given to the AI holds only what was saved before the request, the user message
\* is saved before the reply, and when AI generation raises neither message is saved.
C17_StepOrder ==
    Handler = "send_message"
        => LET loc == last_request.loc
           IN  /\ Len(StepsAfterSession) <= Len(StepOrder)
               /\ \A k \in DOMAIN StepsAfterSession : StepsAfterSession[k] = StepOrder[k]
               /\ Status = 200 <=> StepsAfterSession = StepOrder
               /\ loc.chat_history \in {<<>>, HistoryBefore}
               /\ (Status = 200 /\ Len(loc.fallback_messages) \in {0, 2})
                    => SavedMessages = ExchangeOf(last_request)
               /\ loc.ai = "other_error" => Status = 500 /\ NothingSaved
               /\ Status = 500 => NothingSaved

\* AI generation raised after the history of an earlier exchange was read, and the
\* provider's store is as it was
C17_Witness ==
    /\ Handler = "send_message"
    /\ last_request.loc.ai = "other_error"
    /\ last_request.loc.chat_history # <<>>
    /\ Status = 500
    /\ honcho_remote.messages[last_request.loc.session_id] = last_request.loc.remote_before

-----------------------------------------------------------------------------
(* C18: the message list sent to the language model *)

AiCalled == Handler = "send_message" /\ "generate_response" \in StepsMade

\* C18: the list is the system prompt, then the last min(5, n) messages of the history
\* of n messages in their order, then the current user message; its length is at most 7.
C18_MessageList ==
    AiCalled
        => LET msgs == last_request.loc.ai_messages
               h == last_request.loc.chat_history
               n == Len(h)
               k == Min(5, n)
           IN  /\ Len(msgs) = k + 2
               /\ Len(msgs) <= 7
               /\ msgs[1].role = "system"
               /\ \A j \in 1..k : msgs[1 + j] = h[n - k + j]
               /\ msgs[Len(msgs)] = [role |-> "user", content |-> last_request.request.message]

\* a history of more than five messages, of which five were sent
C18_Witness ==
    /\ AiCalled
    /\ Len(last_request.loc.chat_history) > 5
    /\ Len(last_request.loc.ai_messages) = 7
    /\ last_request.loc.ai_messages[2] # last_request.loc.chat_history[1]

-----------------------------------------------------------------------------
(* C19, C20: the query sent to the case-law API *)

RequestSent == Len(http_requests) >= 1
SentQuery == http_requests[1].q
\* the keywords placed in the query: the first five of the validated ones
QueryTerms ==
    SubSeq(locals.valid_keywords, 1, Min(5, Len(locals.valid_keywords)))
NamesConsumer(text) == IsSubstring(ConsumerWord, Lower(text))

\* C19: the query sent carries consumer context: one of the terms placed in it contains
\* "consumer", or the clause AND (consumer OR "consumer protection") ends it.
C19_ConsumerContext ==
    RequestSent
        => \/ \E k \in 1..Len(QueryTerms) : NamesConsumer(QueryTerms[k])
           \/ EndsWith(SentQuery, ConsumerClause)

\* what the code guarantees instead: the clause is there unless some validated keyword,
\* placed in the query or not, contains "consumer"
C19_ClauseUnlessSomeKeyword ==
    RequestSent
        => (EndsWith(SentQuery, ConsumerClause)
              <=> ~\E k \in 1..Len(locals.valid_keywords) :
                      NamesConsumer(locals.valid_keywords[k]))

\* the terms, each between double quotes, with " OR " between them
RECURSIVE QuotedOr(_)
QuotedOr(terms) ==
    IF terms = <<>> THEN <<>>
    ELSE <<"\"">> \o Head(terms) \o <<"\"">>
            \o (IF Len(terms) = 1 THEN <<>>
                ELSE <<" ", "O", "R", " ">> \o QuotedOr(Tail(terms)))

\* C20: the query is built from the first five validated keywords at most, each quoted,
\* joined with OR in their order (alone, or parenthesised before the consumer clause);
\* the scores and the reported keywords_used rest on all the validated keywords.
C20_FirstFiveKeywords ==
    /\ RequestSent
        => /\ Len(QueryTerms) <= 5
           /\ SentQuery \in { QuotedOr(QueryTerms),
                              <<"(">> \o QuotedOr(QueryTerms) \o <<")">> \o ConsumerClause }
    /\ SearchOk
        => /\ tool_result.data.keywords_used = locals.valid_keywords
           /\ Len(locals.valid_keywords) <= 10
    /\ ScoresAre(ScoreOnSpaceJoined)

\* ten keywords validated, five of them in the query, and a case whose matches are all
\* with keywords beyond the fifth
C20_Witness ==
    /\ SearchOk
    /\ Len(locals.valid_keywords) = 10
    /\ Len(tool_result.data.keywords_used) = 10
    /\ \E j \in 1..Len(Cases) : \E r \in 1..Len(scored_results) :
          /\ scored_results[r].item.id = Cases[j].case_id
          /\ Cases[j].keyword_matches >= 2
          /\ MatchCount(QueryTerms,
                        Lower(FieldText(scored_results[r].item.case_name) \o <<" ">>
                                \o FieldText(scored_results[r].item.snippet))) = 0


-----------------------------------------------------------------------------
(* C21: the date filters of the search request *)

\* the date range of the call: "recent-2years" when the argument is absent
DateRange ==
    IF args.date_range.t = "absent"
    THEN PyStr(<<"r", "e", "c", "e", "n", "t", "-", "2", "y", "e", "a", "r", "s">>)
    ELSE args.date_range
FiledAfter == http_requests[1].filed_after
FiledBefore == http_requests[1].filed_before

\* the number written with the digits s
RECURSIVE NumberOf(_)
NumberOf(s) ==
    IF s = <<>> THEN 0
    ELSE NumberOf(SubSeq(s, 1, Len(s) - 1)) * 10
             + (CHOOSE v \in 0..9 : ToString(v) = s[Len(s)])

IsDigits(s) == \A i \in 1..Len(s) : s[i] \in {ToString(v) : v \in 0..9}

\* text is YYYY-MM-DD and names the day that is `days` days before the day of the call
IsDayBefore(text, days) ==
    /\ text.t = "str"
    /\ Len(text.s) = 10
    /\ text.s[5] = "-" /\ text.s[8] = "-"
    /\ IsDigits(SubSeq(text.s, 1, 4) \o SubSeq(text.s, 6, 7) \o SubSeq(text.s, 9, 10))
    /\ LET date == [ year  |-> NumberOf(SubSeq(text.s, 1, 4)),
                     month |-> NumberOf(SubSeq(text.s, 6, 7)),
                     day   |-> NumberOf(SubSeq(text.s, 9, 10)) ]
       IN  /\ date.month \in 1..12
           /\ date.day \in 1..31
           /\ date.month # 12
                  => date.day <= DaysBeforeMonth(date.year, date.month + 1)
                                     - DaysBeforeMonth(date.year, date.month)
           /\ ToOrdinal(date) = ToOrdinal(locals.current_date) - days

\* s is before t in the order of strings
RECURSIVE StrLess(_, _)
StrLess(s, t) ==
    IF t = <<>> THEN FALSE
    ELSE IF s = <<>> THEN TRUE
    ELSE IF Head(s) = Head(t) THEN StrLess(Tail(s), Tail(t))
    ELSE NumberOf(<<Head(s)>>) < NumberOf(<<Head(t)>>)

IsRecent ==
    DateRange = PyStr(<<"r", "e", "c", "e", "n", "t", "-", "2", "y", "e", "a", "r", "s">>)
IsEstablished ==
    DateRange = PyStr(<<"e", "s", "t", "a", "b", "l", "i", "s", "h", "e", "d", "-",
                        "p", "r", "e", "c", "e", "d", "e", "n", "t">>)

\* C21: the request carries filed_after = the day 730 days before the call and no
\* filed_before when date_range is "recent-2years" or absent; filed_after = the day 3650
\* days before and filed_before = the day 1825 days before, filed_after the earlier of the
\* two, when it is "established-precedent"; neither bound for any other value.
C21_DateFilters ==
    RequestSent =>
        /\ IsRecent => IsDayBefore(FiledAfter, 730) /\ FiledBefore = Absent
        /\ IsEstablished =>
               /\ IsDayBefore(FiledAfter, 3650)
               /\ IsDayBefore(FiledBefore, 1825)
               /\ StrLess(FiledAfter.s, FiledBefore.s)
        /\ ~IsRecent /\ ~IsEstablished => FiledAfter = Absent /\ FiledBefore = Absent

\* a request for established precedents sent on the day after a leap day, its older bound
\* in another month than the day of the call
C21_Witness ==
    /\ RequestSent
    /\ IsEstablished
    /\ locals.current_date = [year |-> 2024, month |-> 3, day |-> 1]
    /\ FiledAfter.s # FiledBefore.s

-----------------------------------------------------------------------------
(* C22: scoring and ranking are deterministic and keep the order of ties *)

\* the call that has returned was given the keywords, the limit and the answer of the
\* API that the earlier call was given
SameInputs ==
    /\ first_run.called
    /\ pc = "done"
    /\ args.search_keywords = first_run.args.search_keywords
    /\ args.limit = first_run.args.limit
    /\ response = first_run.response

\* cases that tie are returned in the order of the API, which numbers its cases
TiesInApiOrder(cases) ==
    \A i, j \in 1..Len(cases) :
        /\ i < j
        /\ cases[i].keyword_matches = cases[j].keyword_matches
        /\ cases[i].citation_count = cases[j].citation_count
        => cases[i].case_id < cases[j].case_id

\* C22: a call given the same keywords, the same limit and the same API answer as an
\* earlier call returns what the earlier call returned, the same cases in the same order;
\* and cases that tie on (keyword_matches, citation_count) keep the order in which the
\* API returned them.
C22_Deterministic ==
    /\ SameInputs => tool_result = first_run.result
    /\ SearchOk => TiesInApiOrder(Cases)

\* a second call on another day than the first, with the same inputs, that returns two
\* cases that tie
C22_Witness ==
    /\ SameInputs
    /\ SearchOk
    /\ Len(Cases) = 2
    /\ Cases[1].keyword_matches = Cases[2].keyword_matches
    /\ Cases[1].citation_count = Cases[2].citation_count
    /\ Cases[1].keyword_matches >= 1
    /\ locals.current_date = [year |-> 2028, month |-> 2, day |-> 29]

=========================================================================
